---- MODULE Spec2Model ----
(***************************************************************************)
(* Model of xapian_model: the Manager / BaseXapianModel pair that maps     *)
(* attribute access and class-level calls onto put/get/search/delete calls *)
(* of the Xapiand client, in its async (xapian_model/base.py) and its sync *)
(* (xprofile/base.py) variant.                                             *)
(*                                                                         *)
(* Python dicts are functions whose domain is the set of keys; Python      *)
(* None is the string "None"; every field value is a string.  A resolved   *)
(* index path is the sequence of the pieces str.format concatenates.       *)
(***************************************************************************)
EXTENDS Naturals, Integers, Sequences, FiniteSets, TLC

\* variant : "async" (xapian_model/base.py) or "sync" (xprofile/base.py)
\* cls     : the model class: its name, INDEX_TEMPLATE and SCHEMA
\* registry: the model classes declared so far and the Manager objects made
\* objs    : the model instances the caller holds, by slot
\* ipheap  : the dicts bound to _index_params, by address
\* task    : the running (or last) operation and its local variables
\* calls   : the remote calls that operation has issued, in order
\* replies : what the remote service answered to them, in order
\* result  : what the operation returned or raised
\* parked  : task, calls, replies and result of the other coroutine of the
\*           event loop, the one that is not running
VARIABLES variant, cls, registry, objs, ipheap, task, calls, replies, result,
          parked

vars ==
    <<variant, cls, registry, objs, ipheap, task, calls, replies, result,
      parked>>

(***************************************************************************)
(* Bounds and input universes                                              *)
(***************************************************************************)
\* number of instance references the caller holds at once
MaxInst == 2
\* number of model classes declared, and of Manager objects made
MaxClasses == 3
MaxManagers == 3
None == "None"
Vals == {"v1", "v2"}
Ids == {"v1", "v2"}
SchemaKey == "_schema"
EmptyDict == [k \in {} |-> None]

Slots == 1..MaxInst

\* one piece of string.Formatter().parse(template): (literal_text, field_name);
\* field_name is None for a trailing literal and "" for an auto-numbered "{}"
Piece(lit, fname) == [lit |-> lit, fname |-> fname]

\* "/items"
TItems == <<Piece("/items", None)>>
\* "/products/{category}"
TProducts == <<Piece("/products/", "category")>>
\* "/{category}/{name}"
TTwo == <<Piece("/", "category"), Piece("/", "name")>>
\* "/t/{}"
TAuto == <<Piece("/t/", "")>>

Templates == {TItems, TProducts, TTwo, TAuto}

(***************************************************************************)
(* dict helpers                                                            *)
(***************************************************************************)
\* d[k] = v
DictSet(d, k, v) == [x \in (DOMAIN d) \cup {k} |-> IF x = k THEN v ELSE d[x]]

\* {**a, **b}
DictMerge(a, b) ==
    [x \in (DOMAIN a) \cup (DOMAIN b) |-> IF x \in DOMAIN b THEN b[x] ELSE a[x]]

\* d.get(k)
DictGet(d, k) == IF k \in DOMAIN d THEN d[k] ELSE None

\* d after d.pop(k) for every k of ks that is a key
DictWithout(d, ks) == [x \in (DOMAIN d) \ ks |-> d[x]]

\* every dict with keys among ks and values given per key by vs
DictsOver(ks, vs) == UNION {[D -> vs] : D \in SUBSET ks}

(***************************************************************************)
(* _template_fields, _extract_index_params, str.format                     *)
(***************************************************************************)
\* a mutant that keeps only the first placeholder of the template
TemplateFieldsFirstOnly(template) ==
    {template[i].fname : i \in {j \in DOMAIN template : j = 1}} \ {None, ""}

\* {fname for _, fname, _, _ in Formatter().parse(template) if fname}
TemplateFields(template) ==
    {template[i].fname : i \in DOMAIN template} \ {None, ""}

\* a mutant that takes every keyword argument for an index parameter
ExtractIndexParamsAll(template, kwargs) ==
    [params |-> kwargs, kwargs |-> EmptyDict]

\* a mutant that returns the parameters without popping them from kwargs
ExtractIndexParamsNoPop(template, kwargs) ==
    LET fields == TemplateFields(template)
    IN  [params |-> [f \in fields \cap DOMAIN kwargs |-> kwargs[f]],
         kwargs |-> kwargs]

\* {f: kwargs.pop(f) for f in fields if f in kwargs}: the returned dict and
\* kwargs as the comprehension leaves it
ExtractIndexParams(template, kwargs) ==
    LET fields == TemplateFields(template)
    IN  [params |-> [f \in fields \cap DOMAIN kwargs |-> kwargs[f]],
         kwargs |-> DictWithout(kwargs, fields)]

RECURSIVE FormatFrom(_, _, _, _)
FormatFrom(template, kw, i, acc) ==
    IF i > Len(template) THEN [ok |-> TRUE, path |-> acc, err |-> None]
    ELSE LET p == template[i]
         IN  IF p.fname = None
             THEN FormatFrom(template, kw, i + 1, Append(acc, p.lit))
             ELSE IF p.fname = ""
             THEN [ok |-> FALSE, path |-> <<>>, err |-> "IndexError"]
             ELSE IF p.fname \notin DOMAIN kw
             THEN [ok |-> FALSE, path |-> <<>>, err |-> "KeyError"]
             ELSE FormatFrom(template, kw, i + 1,
                             Append(Append(acc, p.lit), kw[p.fname]))

\* a mutant that formats a placeholder without value as the empty string
FormatLenient(template, kw) ==
    FormatFrom(template,
               [k \in (DOMAIN kw) \cup TemplateFields(template) |->
                   IF k \in DOMAIN kw THEN kw[k] ELSE ""],
               1, <<>>)

\* template.format(**kw): the path, or the lookup failure format raises
Format(template, kw) == FormatFrom(template, kw, 1, <<>>)

(***************************************************************************)
(* Values of the state                                                     *)
(***************************************************************************)
\* the status code of the missing-schema failure
PRECONDITION_FAILED == 412
\* a status code of another transport failure
SERVER_ERROR == 500

\* a model instance: _data, the heap address of the dict bound to
\* _index_params (0 when the attribute was never set), and the other
\* attributes kept in the instance __dict__; origin records the path of the
\* manager call that built the instance (empty for one the caller constructed)
Instance(data, ip, attrs) ==
    [live |-> TRUE, data |-> data, ip |-> ip, attrs |-> attrs, origin |-> <<>>]
NoInstance ==
    [live |-> FALSE, data |-> EmptyDict, ip |-> 0, attrs |-> EmptyDict,
     origin |-> <<>>]

\* an exception as the caller sees it; call is the remote call that raised
\* it, message the names an AttributeError carries
TransportError(has_response, status_code, call) ==
    [type |-> "TransportError", has_response |-> has_response,
     status_code |-> status_code, call |-> call, message |-> <<>>]
LocalError(type) ==
    [type |-> type, has_response |-> FALSE, status_code |-> 0, call |-> 0,
     message |-> <<>>]
\* AttributeError("'<owner>' object has no attribute '<name>'")
AttributeError(owner, name) ==
    [LocalError("AttributeError") EXCEPT !.message = <<owner, name>>]
NoExc == LocalError(None)

\* one remote call with its arguments; arguments a call does not take are None
PutCall(index, body, id) ==
    [fn |-> "put", index |-> index, body |-> body, id |-> id, volatile |-> FALSE,
     query |-> None, limit |-> None, offset |-> None, sort |-> None,
     check_at_least |-> None]
GetCall(index, id, volatile) ==
    [fn |-> "get", index |-> index, body |-> EmptyDict, id |-> id,
     volatile |-> volatile, query |-> None, limit |-> None, offset |-> None,
     sort |-> None, check_at_least |-> None]
SearchCall(index, a) ==
    [fn |-> "search", index |-> index, body |-> EmptyDict, id |-> None,
     volatile |-> FALSE, query |-> a.query, limit |-> a.limit,
     offset |-> a.offset, sort |-> a.sort, check_at_least |-> a.check_at_least]
DeleteCall(index, id) ==
    [fn |-> "delete", index |-> index, body |-> EmptyDict, id |-> id,
     volatile |-> FALSE, query |-> None, limit |-> None, offset |-> None,
     sort |-> None, check_at_least |-> None]

\* SearchResults, with the result instances held in slots 1..n of objs
SearchResults(n, total_count, matches_estimated, aggregations) ==
    [n |-> n, total_count |-> total_count,
     matches_estimated |-> matches_estimated, aggregations |-> aggregations]
NoSearchResults == SearchResults(0, 0, 0, None)

\* what an operation returned or raised; value is the value of an attribute
\* read, None for every other operation
Returned(slot, sr) ==
    [kind |-> "return", exc |-> NoExc, slot |-> slot, sr |-> sr, value |-> None]
Raised(exc) ==
    [kind |-> "raise", exc |-> exc, slot |-> 0, sr |-> NoSearchResults,
     value |-> None]
NoResult ==
    [kind |-> "none", exc |-> NoExc, slot |-> 0, sr |-> NoSearchResults,
     value |-> None]

\* what an instance held when an operation started: the instance and the
\* contents of its _index_params dict
Snapshot(inst, ipval) == [inst |-> inst, ipval |-> ipval]
NoSnapshot == Snapshot(NoInstance, EmptyDict)

\* the optional positional argument of Model(data, **kwargs)
Some(d) == [some |-> TRUE, val |-> d]
Absent == [some |-> FALSE, val |-> EmptyDict]

\* an optional boolean keyword argument
Given(b) == [given |-> TRUE, val |-> b]
NotGiven == [given |-> FALSE, val |-> FALSE]

\* the arguments the caller passed to an operation; data is the positional
\* argument of Model(...), name and value are those of an attribute access
Args(id, volatile, filter, kwargs) ==
    [id |-> id, volatile |-> volatile, filter |-> filter, kwargs |-> kwargs,
     data |-> Absent, name |-> None, value |-> None]
NoFilterArgs ==
    [query |-> None, limit |-> None, offset |-> None, sort |-> None,
     check_at_least |-> None]
NoArgs == Args(None, NotGiven, NoFilterArgs, EmptyDict)

\* the running (or last) operation: its name, where it is suspended (pc),
\* the instance slot it acts on or fills, the arguments it was called with,
\* the instance as it was when the operation started (pre), and its local
\* variables index, body, id, kwargs and index_params; body_is_data tells
\* that body names the very dict the instance's _data names
NoTask ==
    [name |-> "none", pc |-> "idle", slot |-> 0, args |-> NoArgs,
     pre |-> NoSnapshot, index |-> <<>>, body |-> EmptyDict, id |-> None,
     kwargs |-> EmptyDict, index_params |-> EmptyDict, body_is_data |-> FALSE]
NewTask(name, slot, args, pre) ==
    [NoTask EXCEPT !.name = name, !.slot = slot, !.args = args, !.pre = pre]

\* a coroutine that is not running: its operation with its local variables,
\* the calls it issued, the replies it got and what it returned or raised
Coroutine(t, cs, rs, res) ==
    [task |-> t, calls |-> cs, replies |-> rs, result |-> res]
NoCoroutine == Coroutine(NoTask, <<>>, <<>>, NoResult)

(***************************************************************************)
(* Input universes                                                         *)
(***************************************************************************)
\* the names used anywhere in this module that start with '_': keys of
\* documents, attributes of an instance, and the method _get_index
PrivateNames == {"_schema", "_custom", "_data", "_index_params", "_get_index"}
\* name.startswith('_')
StartsWithUnderscore(name) == name \in PrivateNames

\* keyword arguments of create / get / filter
KwDicts ==
    DictsOver({"category", "name", SchemaKey}, {"v1"})
        \cup {[k \in {"category"} |-> "v2"]}

\* documents the server returns
Responses ==
    { EmptyDict,
      [k \in {"id", "name"} |-> "v1"],
      [k \in {"id", "name", "category"} |-> "v2"],
      [k \in {"name", SchemaKey} |-> IF k = "name" THEN "v1" ELSE "schema"] }

\* outcome of put / get / delete: a document, or a TransportError with a
\* response carrying a status code, or one with response None
Ok(data) == [ok |-> TRUE, data |-> data, has_response |-> FALSE, status_code |-> 0]
Fail(has_response, status_code) ==
    [ok |-> FALSE, data |-> EmptyDict, has_response |-> has_response,
     status_code |-> status_code]
Failures ==
    {Fail(TRUE, PRECONDITION_FAILED), Fail(TRUE, SERVER_ERROR), Fail(FALSE, 0)}
Outcomes == {Ok(d) : d \in Responses} \cup Failures

\* named arguments of filter
FilterArgs(query, limit, offset, sort, check_at_least) ==
    [query |-> query, limit |-> limit, offset |-> offset, sort |-> sort,
     check_at_least |-> check_at_least]
FilterArgSets ==
    { FilterArgs(None, None, None, None, None),
      FilterArgs("*", "10", None, None, None),
      FilterArgs("q", "10", "20", "name", "100") }

\* documents a search response lists as hits
HitDocs == { [k \in {"id"} |-> "v1"], [k \in {"id", "name"} |-> "v2"] }
RECURSIVE SeqsUpTo(_, _)
SeqsUpTo(S, n) ==
    IF n = 0 THEN {<<>>}
    ELSE LET shorter == SeqsUpTo(S, n - 1)
         IN  shorter \cup {Append(q, x) : q \in {r \in shorter : Len(r) = n - 1}, x \in S}

\* a search response: hits, count, total, and aggregations when the
\* response object has that attribute
SearchResponse(hits, count, total, has_aggs, aggregations) ==
    [ok |-> TRUE, hits |-> hits, count |-> count, total |-> total,
     has_aggs |-> has_aggs, aggregations |-> aggregations,
     has_response |-> FALSE, status_code |-> 0]
SearchFail(has_response, status_code) ==
    [ok |-> FALSE, hits |-> <<>>, count |-> 0, total |-> 0, has_aggs |-> FALSE,
     aggregations |-> None, has_response |-> has_response,
     status_code |-> status_code]
\* (count - len(hits), total, has aggregations, aggregations)
SearchMeta ==
    { <<0, 0, FALSE, None>>, <<0, 100, TRUE, None>>, <<1, 100, TRUE, "aggs">>,
      <<1, 0, FALSE, None>> }
SearchOutcomes ==
    { SearchResponse(h, Len(h) + m[1], m[2], m[3], m[4]) :
        h \in SeqsUpTo(HitDocs, MaxInst), m \in SearchMeta }
      \cup {SearchFail(f.has_response, f.status_code) : f \in Failures}
\* keyword arguments of get / filter
IndexKwDicts == {kw \in KwDicts : SchemaKey \notin DOMAIN kw}

(***************************************************************************)
(* The instance heap                                                       *)
(***************************************************************************)
\* addresses of _index_params dicts the live instances of o refer to
Referenced(o) == {o[i].ip : i \in {j \in Slots : o[j].live}} \ {0}

\* address for a dict allocated while the slots in D are being rebound
FreshAddr(o, D) ==
    LET used == {o[i].ip : i \in {j \in Slots \ D : o[j].live}}
    IN  IF D = {} THEN 0
        ELSE CHOOSE a \in Slots \ used : \A b \in Slots \ used : a <= b

\* dicts no instance refers to any more are dropped
Collect(o, h) == [a \in Slots |-> IF a \in Referenced(o) THEN h[a] ELSE EmptyDict]

\* the dict the instance attribute _index_params names, {} when the
\* attribute was never assigned
IndexParamsOf(inst, h) == IF inst.ip = 0 THEN EmptyDict ELSE h[inst.ip]

SnapshotOf(o, h, slot) == Snapshot(o[slot], IndexParamsOf(o[slot], h))

(***************************************************************************)
(* BaseXapianModel: __init__, __setattr__, _get_index                      *)
(***************************************************************************)
\* {**(data or {}), **kwargs}
ModelInit(data, kwargs) ==
    DictMerge(IF data.some /\ data.val # EmptyDict THEN data.val ELSE EmptyDict,
              kwargs)

\* a lookup or call that fails before the template is formatted
FailsWith(type) == [ok |-> FALSE, path |-> <<>>, err |-> type]

\* a mutant in which a document field wins over an index parameter
GetIndexDataWins(template, inst, h) ==
    Format(template, DictMerge(IndexParamsOf(inst, h), inst.data))

\* index_params = getattr(self, '_index_params', {}), then
\* INDEX_TEMPLATE.format(**{**self._data, **index_params}); when the
\* instance has no attribute _index_params but its document has a field of
\* that name, getattr yields that field through __getattr__, and a field
\* value, a string, is no mapping to unpack
GetIndex(template, inst, h) ==
    IF inst.ip = 0 /\ "_index_params" \in DOMAIN inst.data
    THEN FailsWith("TypeError")
    ELSE Format(template, DictMerge(inst.data, IndexParamsOf(inst, h)))

\* self._get_index() as save and delete call it: an instance attribute
\* _get_index, a string, hides the method and cannot be called
CallGetIndex(template, inst, h) ==
    IF "_get_index" \in DOMAIN inst.attrs
    THEN FailsWith("TypeError")
    ELSE GetIndex(template, inst, h)

\* the attributes whose values are dicts: the document data and the stashed
\* index parameters
DictAttrs == {"_data", "_index_params"}

\* a mutant that stores every name, private or not, in the document data
SetAttrInstAllInData(inst, name, value, a) ==
    [inst EXCEPT !.data = DictSet(inst.data, name, value)]

\* the instance after self.<name> = value: a name that starts with '_' is
\* bound on the instance by object.__setattr__, which rebinds the document
\* data for _data and the stashed index parameters for _index_params (their
\* value is a dict, kept at address a for _index_params), and any other
\* name is stored in the dict _data names
SetAttrInst(inst, name, value, a) ==
    IF StartsWithUnderscore(name)
    THEN IF name = "_data" THEN [inst EXCEPT !.data = value]
         ELSE IF name = "_index_params" THEN [inst EXCEPT !.ip = a]
         ELSE [inst EXCEPT !.attrs = DictSet(inst.attrs, name, value)]
    ELSE [inst EXCEPT !.data = DictSet(inst.data, name, value)]

\* the names the class (BaseXapianModel and its subclass) itself defines:
\* normal attribute lookup finds them before __getattr__ is tried
ClassAttrs ==
    {"save", "delete", "objects", "SCHEMA", "INDEX_TEMPLATE",
     "default_manager_class", "_get_index"}

\* an attribute read that found a value, and one that raised
Found(value) == [ok |-> TRUE, value |-> value, exc |-> NoExc]
NotFound(exc) == [ok |-> FALSE, value |-> None, exc |-> exc]

\* the object a class-defined name is bound to, as a string
ClassAttr(c, name) == IF name = "SCHEMA" THEN c.SCHEMA ELSE name

\* a mutant that answers None for a missing field, like dict.get
ModelGetAttrOrNone(c, inst, name) ==
    IF name \in DOMAIN inst.data THEN Found(inst.data[name]) ELSE Found(None)

\* __getattr__: self._data[name], or AttributeError with the class name and
\* the attribute name
ModelGetAttr(c, inst, name) ==
    IF name \in DOMAIN inst.data
    THEN Found(inst.data[name])
    ELSE NotFound(AttributeError(c.name, name))

\* a mutant that looks in the document data before anything else
ReadAttributeDataFirst(c, inst, h, name) ==
    IF name \in DOMAIN inst.data THEN Found(inst.data[name])
    ELSE IF name = "_data" THEN Found(inst.data)
    ELSE IF name = "_index_params" /\ inst.ip # 0 THEN Found(h[inst.ip])
    ELSE IF name \in DOMAIN inst.attrs THEN Found(inst.attrs[name])
    ELSE IF name \in ClassAttrs THEN Found(ClassAttr(c, name))
    ELSE ModelGetAttr(c, inst, name)

\* instance.<name>: the instance __dict__ (which always holds _data, holds
\* _index_params once it was assigned, and holds every other '_' name
\* written), then the class, and __getattr__ only when neither has the name
ReadAttribute(c, inst, h, name) ==
    IF name = "_data" THEN Found(inst.data)
    ELSE IF name = "_index_params" /\ inst.ip # 0 THEN Found(h[inst.ip])
    ELSE IF name \in DOMAIN inst.attrs THEN Found(inst.attrs[name])
    ELSE IF name \in ClassAttrs THEN Found(ClassAttr(c, name))
    ELSE ModelGetAttr(c, inst, name)

(***************************************************************************)
(* The except TransportError branch of create and save                     *)
(***************************************************************************)
\* a mutant that retries on every failure that carries a response
OnTransportErrorAnyStatus(v, o) ==
    IF ~o.has_response
    THEN IF v = "async" THEN "AttributeError" ELSE "raise"
    ELSE "retry"

\* what the handler does with a failed first put: "retry" with the schema,
\* re-"raise" the failure, or fail with "AttributeError" while reading
\* exc.response.status_code of a failure whose response is None
OnTransportError(v, o) ==
    IF v = "async"
    THEN IF ~o.has_response THEN "AttributeError"
         ELSE IF o.status_code = PRECONDITION_FAILED THEN "retry" ELSE "raise"
    ELSE IF o.has_response /\ o.status_code = PRECONDITION_FAILED
         THEN "retry" ELSE "raise"

\* a mutant that sends the retry without the schema
CreateRetryBodyNoSchema(body, schema) == body

\* body['_schema'] = self.model_cls.SCHEMA
CreateRetryBody(body, schema) == DictSet(body, SchemaKey, schema)

\* {**self._data, '_schema': self.SCHEMA}
SaveRetryBody(data, schema) ==
    DictMerge(data, [k \in {SchemaKey} |-> schema])

\* a mutant that stores the schema into the dict self._data names, as create
\* does with the dict its body names
LocalDataAfterRetryBodyInPlace(data, body) == body

\* body = {**self._data, '_schema': self.SCHEMA} builds a new dict: the dict
\* self._data names is left as it was
LocalDataAfterRetryBody(data, body) == data

\* a mutant that retries again when the retry fails
MayRetryAlways(pc) == TRUE

\* the second put is made inside the except handler, outside any try: only
\* the failure of the first put is handled
MayRetry(pc) == pc = "put1"

\* a mutant that wraps the body sent instead of the response
WrappedDataSent(body, data) == body

\* instance = self.model_cls(data): the response is what create wraps
WrappedData(body, data) == data

\* a mutant that keeps the fields the data holds when the response arrives
SavedDataKeepsCurrent(current, data) == DictMerge(data, current)

\* a mutant that merges the response into the data held
SavedDataMerged(current, data) == DictMerge(current, data)

\* self._data = data
SavedData(current, data) == data

\* a mutant that saves without an id
SaveIdOmitted(body) == None

\* id=body.get('id')
SaveId(body) == DictGet(body, "id")

\* a mutant that deletes by the id of the index parameters
DeleteIdFromParams(data, index_params) == DictGet(index_params, "id")

\* id=self._data.get('id')
DeleteId(data, index_params) == DictGet(data, "id")

\* a mutant that counts the hits it wrapped
FilterTotalCountLen(response) == Len(response.hits)

\* total_count=response.count
FilterTotalCount(response) == response.count

\* aggregations=getattr(response, 'aggregations', None)
FilterAggregations(response) ==
    IF response.has_aggs THEN response.aggregations ELSE None

(***************************************************************************)
(* Initial state: a model class in one of the two variants, no instance    *)
(***************************************************************************)
(***************************************************************************)
(* Class declaration: type.__new__ calls __set_name__ of every attribute   *)
(* of the class body that has one, and then __init_subclass__              *)
(***************************************************************************)
\* a model class: its name, its base (0 for BaseXapianModel, else the number
\* of a declared class), the default_manager_class it sees, the Manager
\* object its own 'objects' attribute is bound to (0 while it has none), and
\* the Manager object its class body assigned to 'objects' (0 when none)
ClassDecl(name, base, default_manager_class, objects) ==
    [name |-> name, base |-> base,
     default_manager_class |-> default_manager_class,
     objects |-> objects, declared |-> objects]

\* a Manager object: its class and its model_cls (0 while it has none)
ManagerObj(type, model_cls) == [type |-> type, model_cls |-> model_cls]

NoClasses == [classes |-> <<>>, managers |-> <<>>]

\* Manager.__set_name__ of manager m, called with the class c that owns it
SetName(managers, m, c) == [managers EXCEPT ![m].model_cls = c]

\* a mutant that tests hasattr(cls, 'objects'): a subclass of a model class
\* keeps the manager it inherits
InitSubclassInherited(reg, c) ==
    LET k == reg.classes[c]
    IN  IF k.objects # 0 THEN reg
        ELSE IF k.base # 0
        THEN [reg EXCEPT !.classes[c].objects = reg.classes[k.base].objects]
        ELSE [classes |-> [reg.classes EXCEPT ![c].objects = Len(reg.managers) + 1],
              managers |-> Append(reg.managers,
                                  ManagerObj(k.default_manager_class, c))]

\* __init_subclass__ of class c: a class whose own namespace has no
\* 'objects' gets a new manager of its default_manager_class, bound to it
InitSubclass(reg, c) ==
    LET k == reg.classes[c]
    IN  IF k.objects # 0 THEN reg
        ELSE [classes |-> [reg.classes EXCEPT ![c].objects = Len(reg.managers) + 1],
              managers |-> Append(reg.managers,
                                  ManagerObj(k.default_manager_class, c))]

\* class <name>(<base>): with default_manager_class = override when that is
\* not None, and objects = manager `objects` when that is not 0
TypeNew(reg, name, base, override, objects) ==
    LET c == Len(reg.classes) + 1
        dmc == IF override # None THEN override
               ELSE IF base = 0 THEN "Manager"
               ELSE reg.classes[base].default_manager_class
        named == [classes |-> Append(reg.classes, ClassDecl(name, base, dmc, objects)),
                  managers |-> IF objects # 0
                               THEN SetName(reg.managers, objects, c)
                               ELSE reg.managers]
    IN  InitSubclass(named, c)

\* the name of the model class declared with each template
ClassName(t) ==
    CASE t = TItems -> "SimpleModel"
      [] t = TProducts -> "Product"
      [] t = TTwo -> "Regional"
      [] t = TAuto -> "Auto"

\* class <name>(BaseXapianModel): INDEX_TEMPLATE = t; SCHEMA = {...}
ModelClass(t) == [name |-> ClassName(t), INDEX_TEMPLATE |-> t, SCHEMA |-> "schema"]

Init ==
    /\ variant \in {"async", "sync"}
    /\ cls \in {ModelClass(t) : t \in Templates}
    /\ registry = TypeNew(NoClasses, cls.name, 0, None, 0)
    /\ objs = [i \in Slots |-> NoInstance]
    /\ ipheap = [a \in Slots |-> EmptyDict]
    /\ task = NoTask
    /\ calls = <<>>
    /\ replies = <<>>
    /\ result = NoResult
    /\ parked = NoCoroutine

Idle == task.pc = "idle"

\* an operation starts: t holds its local variables, and it either issues
\* its first remote call and suspends at pc, or fails resolving its path
Begin(t, f, pc, call) ==
    /\ replies' = <<>>
    /\ IF f.ok
       THEN /\ task' = [t EXCEPT !.pc = pc, !.index = f.path]
            /\ calls' = <<call>>
            /\ result' = NoResult
       ELSE /\ task' = t
            /\ calls' = <<>>
            /\ result' = Raised(LocalError(f.err))

\* an operation without remote call
Local(t, slot) ==
    /\ task' = t
    /\ calls' = <<>>
    /\ replies' = <<>>
    /\ result' = Returned(slot, NoSearchResults)

\* the operation ends by raising exc
Raise(exc) ==
    /\ task' = [task EXCEPT !.pc = "idle"]
    /\ result' = Raised(exc)

\* the operation ends by returning
Return(slot, sr) ==
    /\ task' = [task EXCEPT !.pc = "idle"]
    /\ result' = Returned(slot, sr)

\* the failure o of the remote call just made, as the exception it raises
FailureOf(o, cs) == TransportError(o.has_response, o.status_code, Len(cs))

\* a mutant that wraps the response without stashing the index parameters
WrapIntoNoParams(slot, data, index_params) ==
    /\ objs' = [objs EXCEPT ![slot] =
                  [Instance(ModelInit(Some(data), EmptyDict), 0, EmptyDict)
                     EXCEPT !.origin = task.index]]
    /\ ipheap' = Collect(objs', ipheap)

\* instance = self.model_cls(data); instance._index_params = index_params
\* bound to the caller's slot
WrapInto(slot, data, index_params) ==
    LET a == FreshAddr(objs, {slot})
        o == [objs EXCEPT ![slot] =
                [Instance(ModelInit(Some(data), EmptyDict), a, EmptyDict)
                   EXCEPT !.origin = task.index]]
    IN  /\ objs' = o
        /\ ipheap' = Collect(o, [ipheap EXCEPT ![a] = index_params])

(***************************************************************************)
(* Model(data, **kwargs) and attribute writes                              *)
(***************************************************************************)
Construct(slot, data, kwargs) ==
    /\ Idle
    /\ LET o == [objs EXCEPT ![slot] = Instance(ModelInit(data, kwargs), 0, EmptyDict)]
       IN  /\ objs' = o
           /\ ipheap' = Collect(o, ipheap)
    /\ Local(NewTask("construct", slot,
                     [Args(None, NotGiven, NoFilterArgs, kwargs) EXCEPT !.data = data],
                     SnapshotOf(objs, ipheap, slot)), slot)
    /\ UNCHANGED <<variant, cls, registry, parked>>

\* the suspended coroutine p holds in body the dict the instance's _data
\* names: a save of that instance waiting for its first put
BodyIsData(p, slot) ==
    /\ p.task.name = "save"
    /\ p.task.pc = "put1"
    /\ p.task.slot = slot
    /\ p.task.body_is_data

\* self._data[name] = value as the suspended coroutine p sees it: the write
\* goes to the dict its body names too
AfterDataWrite(p, slot, name, value) ==
    IF BodyIsData(p, slot) /\ ~StartsWithUnderscore(name)
    THEN [p EXCEPT !.task.body = DictSet(p.task.body, name, value)]
    ELSE p

\* self._data = data as the suspended coroutine p sees it: its body keeps
\* naming the dict _data named before
AfterDataRebound(p, slot) ==
    IF BodyIsData(p, slot)
    THEN [p EXCEPT !.task.body_is_data = FALSE]
    ELSE p

\* instance.<name> = value; the value is a dict for _data and
\* _index_params and a string for every other name (the arguments record
\* keeps a dict under data and a string under value)
SetAttr(slot, name, value) ==
    /\ Idle
    /\ objs[slot].live
    /\ LET a == FreshAddr(objs, {slot})
           o == [objs EXCEPT ![slot] = SetAttrInst(objs[slot], name, value, a)]
       IN  /\ objs' = o
           /\ ipheap' = IF name = "_index_params"
                        THEN Collect(o, [ipheap EXCEPT ![a] = value])
                        ELSE ipheap
    /\ Local(NewTask("setattr", slot,
                     IF name \in DictAttrs
                     THEN [NoArgs EXCEPT !.name = name, !.data = Some(value)]
                     ELSE [NoArgs EXCEPT !.name = name, !.value = value],
                     SnapshotOf(objs, ipheap, slot)), slot)
    /\ parked' = IF name = "_data"
                 THEN AfterDataRebound(parked, slot)
                 ELSE AfterDataWrite(parked, slot, name, value)
    /\ UNCHANGED <<variant, cls, registry>>

\* instance._index_params[key] = value, done by the caller: the dict the
\* attribute is bound to is updated in place
UpdateIndexParams(slot, key, value) ==
    /\ Idle
    /\ objs[slot].live
    /\ LET r == ModelGetAttr(cls, objs[slot], "_index_params")
           t == NewTask("setitem", slot, [NoArgs EXCEPT !.name = key, !.value = value],
                        SnapshotOf(objs, ipheap, slot))
       IN  IF objs[slot].ip # 0
           THEN /\ ipheap' = [ipheap EXCEPT ![objs[slot].ip] = DictSet(@, key, value)]
                /\ Local(t, slot)
           ELSE /\ task' = t
                /\ calls' = <<>>
                /\ replies' = <<>>
                /\ result' = Raised(IF r.ok THEN LocalError("TypeError") ELSE r.exc)
                /\ UNCHANGED ipheap
    /\ UNCHANGED <<variant, cls, registry, parked, objs>>

\* instance.<name> read by the caller
GetAttr(slot, name) ==
    /\ Idle
    /\ objs[slot].live
    /\ LET r == ReadAttribute(cls, objs[slot], ipheap, name)
       IN  /\ task' = NewTask("getattr", slot, [NoArgs EXCEPT !.name = name],
                              SnapshotOf(objs, ipheap, slot))
           /\ result' = IF r.ok
                        THEN [Returned(slot, NoSearchResults) EXCEPT !.value = r.value]
                        ELSE Raised(r.exc)
    /\ calls' = <<>>
    /\ replies' = <<>>
    /\ UNCHANGED <<variant, cls, registry, parked, objs, ipheap>>

(***************************************************************************)
(* Manager.create                                                          *)
(***************************************************************************)
CreateStart(slot, id, kwargs) ==
    /\ Idle
    /\ LET ex == ExtractIndexParams(cls.INDEX_TEMPLATE, kwargs)
           f == Format(cls.INDEX_TEMPLATE, ex.params)
           body == ex.kwargs
           t == [NewTask("create", slot, Args(id, NotGiven, NoFilterArgs, kwargs),
                         SnapshotOf(objs, ipheap, slot))
                   EXCEPT !.index_params = ex.params, !.kwargs = ex.kwargs,
                          !.body = body, !.id = id]
       IN  Begin(t, f, "put1", PutCall(f.path, body, id))
    /\ UNCHANGED <<variant, cls, registry, parked, objs, ipheap>>

CreateResume(o) ==
    /\ task.name = "create"
    /\ task.pc \in {"put1", "put2"}
    /\ replies' = Append(replies, o)
    /\ IF o.ok
       THEN /\ WrapInto(task.slot, WrappedData(task.body, o.data), task.index_params)
            /\ Return(task.slot, NoSearchResults)
            /\ UNCHANGED calls
       ELSE IF MayRetry(task.pc) /\ OnTransportError(variant, o) = "retry"
       THEN LET body == CreateRetryBody(task.body, cls.SCHEMA)
            IN  /\ task' = [task EXCEPT !.pc = "put2", !.body = body,
                                        !.kwargs = body]
                /\ calls' = Append(calls, PutCall(task.index, body, task.id))
                /\ UNCHANGED <<objs, ipheap, result>>
       ELSE IF MayRetry(task.pc) /\ OnTransportError(variant, o) = "AttributeError"
       THEN /\ Raise(AttributeError("NoneType", "status_code"))
            /\ UNCHANGED <<objs, ipheap, calls>>
       ELSE /\ Raise(FailureOf(o, calls))
            /\ UNCHANGED <<objs, ipheap, calls>>
    /\ UNCHANGED <<variant, cls, registry, parked>>

(***************************************************************************)
(* Manager.get                                                             *)
(***************************************************************************)
\* a mutant that does not pass volatile on
GetVolatileDropped(volatile) == FALSE

\* volatile: bool = False
GetVolatile(volatile) == IF volatile.given THEN volatile.val ELSE FALSE

GetStart(slot, id, volatile, kwargs) ==
    /\ Idle
    /\ LET ex == ExtractIndexParams(cls.INDEX_TEMPLATE, kwargs)
           f == Format(cls.INDEX_TEMPLATE, ex.params)
           t == [NewTask("get", slot, Args(id, volatile, NoFilterArgs, kwargs),
                         SnapshotOf(objs, ipheap, slot))
                   EXCEPT !.index_params = ex.params, !.kwargs = ex.kwargs,
                          !.id = id]
       IN  Begin(t, f, "get", GetCall(f.path, id, GetVolatile(volatile)))
    /\ UNCHANGED <<variant, cls, registry, parked, objs, ipheap>>

GetResume(o) ==
    /\ task.name = "get"
    /\ task.pc = "get"
    /\ replies' = Append(replies, o)
    /\ IF o.ok
       THEN /\ WrapInto(task.slot, o.data, task.index_params)
            /\ Return(task.slot, NoSearchResults)
       ELSE /\ Raise(FailureOf(o, calls))
            /\ UNCHANGED <<objs, ipheap>>
    /\ UNCHANGED <<variant, cls, registry, parked, calls>>

(***************************************************************************)
(* Manager.filter                                                          *)
(***************************************************************************)
FilterStart(args, kwargs) ==
    /\ Idle
    /\ LET ex == ExtractIndexParams(cls.INDEX_TEMPLATE, kwargs)
           f == Format(cls.INDEX_TEMPLATE, ex.params)
           t == [NewTask("filter", 0, Args(None, NotGiven, args, kwargs), NoSnapshot)
                   EXCEPT !.index_params = ex.params, !.kwargs = ex.kwargs]
       IN  Begin(t, f, "search", SearchCall(f.path, args))
    /\ UNCHANGED <<variant, cls, registry, parked, objs, ipheap>>

\* every hit wrapped into an instance; all of them are given the one
\* index_params dict of the call.  The instances fill slots 1..len(hits).
FilterResume(response) ==
    /\ task.name = "filter"
    /\ task.pc = "search"
    /\ replies' = Append(replies, response)
    /\ IF response.ok
       THEN LET n == Len(response.hits)
                a == FreshAddr(objs, 1..n)
                o == [i \in Slots |->
                        IF i <= n
                        THEN [Instance(ModelInit(Some(response.hits[i]), EmptyDict),
                                       a, EmptyDict)
                                EXCEPT !.origin = task.index]
                        ELSE objs[i]]
            IN  /\ objs' = o
                /\ ipheap' = Collect(o, [x \in Slots |->
                                 IF x = a THEN task.index_params ELSE ipheap[x]])
                /\ Return(0, SearchResults(n, FilterTotalCount(response),
                                response.total, FilterAggregations(response)))
       ELSE /\ Raise(FailureOf(response, calls))
            /\ UNCHANGED <<objs, ipheap>>
    /\ UNCHANGED <<variant, cls, registry, parked, calls>>

(***************************************************************************)
(* BaseXapianModel.save                                                    *)
(***************************************************************************)
SaveStart(slot) ==
    /\ Idle
    /\ objs[slot].live
    /\ LET f == CallGetIndex(cls.INDEX_TEMPLATE, objs[slot], ipheap)
           body == objs[slot].data
           t == [NewTask("save", slot, NoArgs, SnapshotOf(objs, ipheap, slot))
                   EXCEPT !.body = IF f.ok THEN body ELSE EmptyDict,
                          !.body_is_data = f.ok,
                          !.id = IF f.ok THEN SaveId(body) ELSE None]
       IN  Begin(t, f, "put1", PutCall(f.path, body, SaveId(body)))
    /\ UNCHANGED <<variant, cls, registry, parked, objs, ipheap>>

SaveResume(o) ==
    /\ task.name = "save"
    /\ task.pc \in {"put1", "put2"}
    /\ replies' = Append(replies, o)
    /\ IF o.ok
       THEN /\ objs' = [objs EXCEPT ![task.slot].data =
                                        SavedData(objs[task.slot].data, o.data)]
            /\ Return(task.slot, NoSearchResults)
            /\ parked' = AfterDataRebound(parked, task.slot)
            /\ UNCHANGED <<ipheap, calls>>
       ELSE IF MayRetry(task.pc) /\ OnTransportError(variant, o) = "retry"
       THEN LET body == SaveRetryBody(objs[task.slot].data, cls.SCHEMA)
            IN  /\ task' = [task EXCEPT !.pc = "put2", !.body = body,
                                        !.body_is_data = FALSE,
                                        !.id = SaveId(body)]
                /\ calls' = Append(calls,
                                   PutCall(task.index, body, SaveId(body)))
                /\ objs' = [objs EXCEPT ![task.slot].data =
                               LocalDataAfterRetryBody(objs[task.slot].data, body)]
                /\ UNCHANGED <<ipheap, result, parked>>
       ELSE IF MayRetry(task.pc) /\ OnTransportError(variant, o) = "AttributeError"
       THEN /\ Raise(AttributeError("NoneType", "status_code"))
            /\ UNCHANGED <<objs, ipheap, calls, parked>>
       ELSE /\ Raise(FailureOf(o, calls))
            /\ UNCHANGED <<objs, ipheap, calls, parked>>
    /\ UNCHANGED <<variant, cls, registry>>

(***************************************************************************)
(* BaseXapianModel.delete                                                  *)
(***************************************************************************)
DeleteStart(slot) ==
    /\ Idle
    /\ objs[slot].live
    /\ LET f == CallGetIndex(cls.INDEX_TEMPLATE, objs[slot], ipheap)
           id == DeleteId(objs[slot].data, IndexParamsOf(objs[slot], ipheap))
           t == [NewTask("delete", slot, NoArgs, SnapshotOf(objs, ipheap, slot))
                   EXCEPT !.id = IF f.ok THEN id ELSE None]
       IN  Begin(t, f, "delete", DeleteCall(f.path, id))
    /\ UNCHANGED <<variant, cls, registry, parked, objs, ipheap>>

DeleteResume(o) ==
    /\ task.name = "delete"
    /\ task.pc = "delete"
    /\ replies' = Append(replies, o)
    /\ IF o.ok
       THEN Return(task.slot, NoSearchResults)
       ELSE Raise(FailureOf(o, calls))
    /\ UNCHANGED <<variant, cls, registry, parked, objs, ipheap, calls>>

(***************************************************************************)
(* Inputs of the operations and the specification                          *)
(***************************************************************************)
\* volatile of get: not given, False or True
VolatileArgs == {NotGiven, Given(FALSE), Given(TRUE)}
\* explicit id of create: None when not given
CreateIds == {None, "v1"}
\* first argument and keyword fields of Model(...)
ConstructData ==
    { Absent, Some(EmptyDict),
      Some([k \in {"id", "name"} |-> "v1"]),
      Some([k \in {"category", "name"} |-> "v1"]),
      Some([k \in {"name", SchemaKey} |-> IF k = "name" THEN "v1" ELSE "schema"]) }
ConstructKwargs == { EmptyDict, [k \in {"name"} |-> "v2"] }
\* attribute writes: a field, a field named like a placeholder, a private name
AttrWrites == { <<"name", "v2">>, <<"category", "v2">>, <<"_custom", "v1">> }
\* dicts the caller binds _data to: one with a key that starts with '_'
DataWrites == { [k \in {"name", SchemaKey} |-> IF k = "name" THEN "v1" ELSE "schema"] }

\* the caller drops every instance it holds
Release ==
    /\ Idle
    /\ \E i \in Slots : objs[i].live
    /\ objs' = [i \in Slots |-> NoInstance]
    /\ ipheap' = [a \in Slots |-> EmptyDict]
    /\ task' = NoTask
    /\ calls' = <<>>
    /\ replies' = <<>>
    /\ result' = NoResult
    /\ UNCHANGED <<variant, cls, registry, parked>>

NoneHeld == \A i \in Slots : ~objs[i].live

\* One caller: it constructs or obtains instances while it holds none, works
\* on the first instance it holds, and awaits every operation it starts.
Next ==
    \/ \E d \in ConstructData, kw \in ConstructKwargs :
          NoneHeld /\ Construct(1, d, kw)
    \/ \E w \in AttrWrites : SetAttr(1, w[1], w[2])
    \/ \E d \in DataWrites : SetAttr(1, "_data", d)
    \/ \E id \in CreateIds, kw \in KwDicts : NoneHeld /\ CreateStart(1, id, kw)
    \/ \E o \in Outcomes : CreateResume(o)
    \/ \E id \in Ids, vol \in VolatileArgs, kw \in IndexKwDicts :
          NoneHeld /\ GetStart(1, id, vol, kw)
    \/ \E o \in Outcomes : GetResume(o)
    \/ \E a \in FilterArgSets, kw \in IndexKwDicts : NoneHeld /\ FilterStart(a, kw)
    \/ \E r \in SearchOutcomes : FilterResume(r)
    \/ SaveStart(1)
    \/ \E o \in Outcomes : SaveResume(o)
    \/ DeleteStart(1)
    \/ \E o \in Outcomes : DeleteResume(o)
    \/ Release

Spec == Init /\ [][Next]_vars

(***************************************************************************)
(* Attribute access: one caller that constructs an instance, writes and    *)
(* reads its attributes, saves it, and drops it                            *)
(***************************************************************************)
\* keyword fields of Model(...), one of them named like a method
AttrConstructKwargs == ConstructKwargs \cup { [k \in {"save"} |-> "v1"] }
\* attribute writes: fields, private names, names the class defines
AttrNameWrites ==
    { <<"name", "v2">>, <<"_custom", "v1">>, <<"save", "v2">>, <<"SCHEMA", "v1">>,
      <<"_get_index", "v1">> }
\* dicts the caller binds _index_params to
IndexParamsWrites == { [k \in {"category"} |-> "v2"] }
\* attribute reads: fields, a name nothing defines, private names, names
\* the class defines
AttrReads ==
    {"name", "category", "missing", "_custom", "_schema", "save", "SCHEMA",
     "_data", "_index_params", "_get_index"}
\* what the server answers to the writes of a save
AttrOutcomes == {Ok([k \in {"id", "name"} |-> "v1"]), Fail(TRUE, SERVER_ERROR)}

AttrNext ==
    \/ \E d \in ConstructData, kw \in AttrConstructKwargs :
          NoneHeld /\ Construct(1, d, kw)
    \/ \E w \in AttrNameWrites : SetAttr(1, w[1], w[2])
    \/ \E d \in DataWrites : SetAttr(1, "_data", d)
    \/ \E d \in IndexParamsWrites : SetAttr(1, "_index_params", d)
    \/ \E n \in AttrReads : GetAttr(1, n)
    \/ SaveStart(1)
    \/ \E o \in AttrOutcomes : SaveResume(o)
    \/ Release

\* the two model classes of the test suite
AttrInit == Init /\ cls.INDEX_TEMPLATE \in {TItems, TProducts}

AttrSpec == AttrInit /\ [][AttrNext]_vars

(***************************************************************************)
(* Two instances: one caller that obtains instances from filter, get and   *)
(* create, holds up to MaxInst of them, and changes and saves any of them  *)
(***************************************************************************)
ShareKw == { [k \in {"category"} |-> "v1"] }
ShareHits == { <<h>> : h \in HitDocs } \cup { <<h, h>> : h \in HitDocs }
ShareSearchOutcomes ==
    { SearchResponse(h, Len(h), Len(h), FALSE, None) : h \in ShareHits }
        \cup { SearchFail(TRUE, SERVER_ERROR) }
ShareOutcomes == { Ok([k \in {"id", "name"} |-> "v1"]), Fail(TRUE, SERVER_ERROR) }
ShareWrites == { <<"name", "v2">>, <<"category", "v2">> }

\* the lowest slot that holds no instance
FreeSlot(s) == ~objs[s].live /\ \A i \in 1..(s - 1) : objs[i].live

ShareNext ==
    \/ \E kw \in ShareKw :
          NoneHeld /\ FilterStart(FilterArgs(None, None, None, None, None), kw)
    \/ \E r \in ShareSearchOutcomes : FilterResume(r)
    \/ \E s \in Slots, kw \in ShareKw : FreeSlot(s) /\ GetStart(s, "v1", NotGiven, kw)
    \/ \E o \in ShareOutcomes : GetResume(o)
    \/ \E s \in Slots, kw \in ShareKw : FreeSlot(s) /\ CreateStart(s, None, kw)
    \/ \E o \in ShareOutcomes : CreateResume(o)
    \/ \E s \in Slots, w \in ShareWrites : SetAttr(s, w[1], w[2])
    \/ \E s \in Slots : UpdateIndexParams(s, "category", "v2")
    \/ \E s \in Slots : SaveStart(s)
    \/ \E o \in ShareOutcomes : SaveResume(o)
    \/ Release

\* the model class is Product
ShareInit == Init /\ cls.INDEX_TEMPLATE = TProducts

ShareSpec == ShareInit /\ [][ShareNext]_vars

(***************************************************************************)
(* Class declarations: further model classes are declared after the first, *)
(* on BaseXapianModel or on a declared class, with or without a manager of *)
(* their own                                                               *)
(***************************************************************************)
ManagerTypes == {"Manager", "SpecialManager"}
DeclNames == <<"First", "Second", "Third", "Fourth">>

\* Manager() or SpecialManager(), called by the declarer
NewManager(type) ==
    /\ Len(registry.managers) < MaxManagers
    /\ registry' = [registry EXCEPT !.managers = Append(@, ManagerObj(type, 0))]
    /\ UNCHANGED <<variant, cls, objs, ipheap, task, calls, replies, result,
                 parked>>

\* a class statement
Declare(base, override, objects) ==
    /\ Len(registry.classes) < MaxClasses
    /\ base \in 0..Len(registry.classes)
    /\ objects \in 0..Len(registry.managers)
    /\ objects = 0 => Len(registry.managers) < MaxManagers
    /\ registry' = TypeNew(registry, DeclNames[Len(registry.classes) + 1],
                           base, override, objects)
    /\ UNCHANGED <<variant, cls, objs, ipheap, task, calls, replies, result,
                 parked>>

DeclNext ==
    \/ \E t \in ManagerTypes : NewManager(t)
    \/ \E b \in 0..MaxClasses, ov \in {None, "SpecialManager"},
          m \in 0..MaxManagers : Declare(b, ov, m)

\* the first class is Product
DeclInit == Init /\ cls.INDEX_TEMPLATE = TProducts

DeclSpec == DeclInit /\ [][DeclNext]_vars

(***************************************************************************)
(* Two coroutines on one instance (async variant): while a save is         *)
(* suspended at its remote call the event loop runs the other coroutine,   *)
(* which writes attributes of the same instance and saves it               *)
(***************************************************************************)
\* await self.objects.client.put(...): the running coroutine is suspended at
\* its remote call, or the other one is and the running one has finished an
\* operation; the event loop runs the other one
Switch ==
    /\ variant = "async"
    /\ task.pc # "idle" \/ parked.task.pc # "idle"
    /\ parked' = Coroutine(task, calls, replies, result)
    /\ task' = parked.task
    /\ calls' = parked.calls
    /\ replies' = parked.replies
    /\ result' = parked.result
    /\ UNCHANGED <<variant, cls, registry, objs, ipheap>>

\* both coroutines have finished and the instance is dropped
AsyncRelease ==
    /\ Idle
    /\ parked.task.pc = "idle"
    /\ \E i \in Slots : objs[i].live
    /\ objs' = [i \in Slots |-> NoInstance]
    /\ ipheap' = [a \in Slots |-> EmptyDict]
    /\ task' = NoTask
    /\ calls' = <<>>
    /\ replies' = <<>>
    /\ result' = NoResult
    /\ parked' = NoCoroutine
    /\ UNCHANGED <<variant, cls, registry>>

\* the instance the two coroutines share, as the caller constructs it
AsyncConstructData == { [k \in {"name", "category"} |-> "v1"] }
\* attribute writes: a document field and a private name
AsyncWrites == { <<"name", "v2">>, <<"_custom", "v1">> }
\* what the server answers to a write of a save: a document without the
\* field written, one with it, the missing-schema failure, another failure
AsyncOutcomes ==
    { Ok([k \in {"id", "name"} |-> "v1"]), Ok([k \in {"name"} |-> "v2"]),
      Fail(TRUE, PRECONDITION_FAILED), Fail(TRUE, SERVER_ERROR) }

AsyncNext ==
    \/ \E d \in AsyncConstructData :
          NoneHeld /\ parked = NoCoroutine /\ Construct(1, Some(d), EmptyDict)
    \/ \E w \in AsyncWrites : SetAttr(1, w[1], w[2])
    \/ SaveStart(1)
    \/ \E o \in AsyncOutcomes : SaveResume(o)
    \/ Switch
    \/ AsyncRelease

\* the async variant and the model class without placeholder
AsyncInit == Init /\ variant = "async" /\ cls.INDEX_TEMPLATE = TItems

AsyncSpec == AsyncInit /\ [][AsyncNext]_vars

(***************************************************************************)
(* Vocabulary of the properties                                            *)
(***************************************************************************)
Template == cls.INDEX_TEMPLATE

\* the placeholder names of each template, read off its text
PlaceholdersOf(t) ==
    CASE t = TItems -> {}
      [] t = TProducts -> {"category"}
      [] t = TTwo -> {"category", "name"}
      [] t = TAuto -> {}

\* the entries of d whose keys are in ks
Restricted(d, ks) == [x \in (DOMAIN d) \cap ks |-> d[x]]

\* the missing-schema failure: a transport failure whose response has status 412
Is412(o) == ~o.ok /\ o.has_response /\ o.status_code = 412

WriteOp == task.name \in {"create", "save"}
LastReply == replies[Len(replies)]

\* the operation failed while resolving its path, before any remote call
PathFailed ==
    /\ Idle
    /\ Len(replies) = 0
    /\ result.kind = "raise"
    /\ result.exc.type \in {"KeyError", "IndexError"}

\* the failure of the n-th remote call, as the caller receives it unchanged
Propagated(n) ==
    /\ Idle
    /\ result = Raised(TransportError(replies[n].has_response,
                                      replies[n].status_code, n))

(***************************************************************************)
(* C1: when the first write of create or save fails with 412, exactly one  *)
(* second write goes to the same path with the same id, its body is the    *)
(* first body with SCHEMA stored under '_schema', and the result is built  *)
(* from the second response.                                               *)
(***************************************************************************)
C1_RetryWithSchema ==
    (WriteOp /\ Len(replies) >= 1 /\ Is412(replies[1])) =>
        /\ Len(calls) = 2
        /\ calls[2].fn = "put"
        /\ calls[2].index = calls[1].index
        /\ calls[2].id = calls[1].id
        /\ calls[2].body = DictSet(calls[1].body, "_schema", cls.SCHEMA)
        /\ (result.kind = "return" =>
               /\ Len(replies) = 2
               /\ replies[2].ok
               /\ objs[task.slot].data = replies[2].data)
        /\ (Len(replies) = 2 /\ replies[2].ok => result.kind = "return")

C1_Witness ==
    /\ task.name = "save"
    /\ Len(replies) = 2
    /\ Is412(replies[1])
    /\ result.kind = "return"
    /\ objs[task.slot].data # task.pre.inst.data

(***************************************************************************)
(* C2: in both variants, when the first write of create or save fails with *)
(* a failure that is not the 412 condition (another status, or no response *)
(* at all), the caller receives that same failure and no second write is   *)
(* made.                                                                   *)
(***************************************************************************)
C2_OtherFailurePropagates ==
    (WriteOp /\ Len(replies) >= 1 /\ ~replies[1].ok /\ ~Is412(replies[1])) =>
        /\ Len(calls) = 1
        /\ Len(replies) = 1
        /\ Propagated(1)

(***************************************************************************)
(* C3: no operation retries more than once: create and save issue at most  *)
(* two writes and a failed retry propagates, even a 412; get, filter and   *)
(* delete issue exactly one remote call once their path is resolved (none  *)
(* when it cannot be resolved) and never retry, whatever the failure.      *)
(***************************************************************************)
C3_AtMostOneRetry ==
    /\ Len(replies) <= Len(calls)
    /\ WriteOp =>
          /\ Len(calls) <= 2
          /\ \A i \in 1..Len(calls) : calls[i].fn = "put"
          /\ (Len(replies) = 2 /\ ~replies[2].ok) => (Len(calls) = 2 /\ Propagated(2))
    /\ task.name \in {"get", "filter", "delete"} =>
          /\ Len(calls) = IF PathFailed THEN 0 ELSE 1
          /\ (Len(replies) = 1 /\ ~replies[1].ok) => Propagated(1)
          /\ (Len(replies) = 1 /\ replies[1].ok) => (Idle /\ result.kind = "return")

C3_Witness ==
    /\ WriteOp
    /\ Len(replies) = 2
    /\ Is412(replies[1])
    /\ Is412(replies[2])
    /\ Idle

(***************************************************************************)
(* C4: the first write of every create and save carries exactly the        *)
(* caller's fields; a second write, the one that carries the schema, is    *)
(* made only directly after a 412 failure of the first; SCHEMA is never    *)
(* modified.                                                               *)
(***************************************************************************)
C4_SchemaOnlyOnRetry ==
    /\ cls.SCHEMA = "schema"
    /\ (task.name = "create" /\ Len(calls) >= 1) =>
          calls[1].body = DictWithout(task.args.kwargs, PlaceholdersOf(Template))
    /\ (task.name = "save" /\ Len(calls) >= 1) =>
          calls[1].body = task.pre.inst.data
    /\ (WriteOp /\ Len(calls) >= 2) => Is412(replies[1])

C4_Witness ==
    /\ task.name = "create"
    /\ Len(calls) = 2
    /\ "_schema" \notin DOMAIN calls[1].body
    /\ "_schema" \in DOMAIN calls[2].body

(***************************************************************************)
(* C5: _extract_index_params returns exactly the entries of K whose keys   *)
(* are placeholder names of T, removes exactly those from K, and leaves    *)
(* every other entry of K with its value; result and remainder are         *)
(* disjoint and their union is the original K.                             *)
(***************************************************************************)
C5_ExtractPartitions ==
    (task.name \in {"create", "get", "filter"} /\ Len(replies) = 0) =>
        LET K == task.args.kwargs
            P == PlaceholdersOf(Template)
            R == task.index_params
            Rest == task.kwargs
        IN  /\ DOMAIN R = (DOMAIN K) \cap P
            /\ \A k \in DOMAIN R : R[k] = K[k]
            /\ DOMAIN Rest = (DOMAIN K) \ P
            /\ \A k \in DOMAIN Rest : Rest[k] = K[k]
            /\ (DOMAIN R) \cap (DOMAIN Rest) = {}
            /\ (DOMAIN R) \cup (DOMAIN Rest) = DOMAIN K

C5_Witness ==
    /\ task.name = "filter"
    /\ Len(replies) = 0
    /\ DOMAIN task.index_params = {"category", "name"}
    /\ DOMAIN task.args.kwargs = {"category", "name"}
    /\ task.kwargs = EmptyDict

(***************************************************************************)
(* C6: the first write of create targets the template with the extracted   *)
(* index parameters substituted, its body is the supplied fields without   *)
(* the index parameters, and its id is the explicit id, None when none is  *)
(* given.                                                                  *)
(***************************************************************************)
C6_CreateFirstWrite ==
    (task.name = "create" /\ Len(calls) >= 1) =>
        LET K == task.args.kwargs
            P == PlaceholdersOf(Template)
        IN  /\ calls[1] = PutCall(Format(Template, Restricted(K, P)).path,
                                  DictWithout(K, P), task.args.id)
            /\ (DOMAIN calls[1].body) \cap P = {}

C6_Witness ==
    /\ task.name = "create"
    /\ task.pc = "put1"
    /\ Template = TProducts
    /\ calls[1].index = <<"/products/", "v1">>
    /\ calls[1].body = [k \in {"name"} |-> "v1"]
    /\ calls[1].id = None

(***************************************************************************)
(* C7: the instance a successful create or get returns holds the server's  *)
(* response verbatim as document data and exactly the extracted index      *)
(* parameters as its stashed index parameters.                             *)
(***************************************************************************)
C7_InstanceWrapsResponse ==
    (task.name \in {"create", "get"} /\ result.kind = "return") =>
        /\ LastReply.ok
        /\ result.slot = task.slot
        /\ objs[task.slot].live
        /\ objs[task.slot].data = LastReply.data
        /\ objs[task.slot].ip # 0
        /\ IndexParamsOf(objs[task.slot], ipheap) =
              Restricted(task.args.kwargs, PlaceholdersOf(Template))

C7_Witness ==
    /\ task.name = "create"
    /\ result.kind = "return"
    /\ "name" \in DOMAIN task.args.kwargs
    /\ "name" \notin DOMAIN objs[task.slot].data
    /\ IndexParamsOf(objs[task.slot], ipheap) = [k \in {"category"} |-> "v1"]
    /\ "category" \notin DOMAIN objs[task.slot].data

(***************************************************************************)
(* C8 as stated: the total_count filter returns equals the number of hits  *)
(* it wrapped, for every server response, and aggregations is None when    *)
(* the response carries none.                                              *)
(***************************************************************************)
C8_CountIsNumberOfHits ==
    (task.name = "filter" /\ result.kind = "return") =>
        /\ result.sr.total_count = result.sr.n
        /\ (~LastReply.has_aggs => result.sr.aggregations = None)

(***************************************************************************)
(* C8 amended: filter wraps every hit, returns as total_count the count    *)
(* the response reports (equal to the number of hits only when the server  *)
(* reports it so) and as matches_estimated its total, and aggregations is  *)
(* None when the response carries none.                                    *)
(***************************************************************************)
C8_CountIsReportedCount ==
    (task.name = "filter" /\ result.kind = "return") =>
        /\ LastReply.ok
        /\ result.sr.n = Len(LastReply.hits)
        /\ \A i \in 1..result.sr.n :
              objs[i].live /\ objs[i].data = LastReply.hits[i]
        /\ result.sr.total_count = LastReply.count
        /\ (result.sr.total_count = result.sr.n <=> LastReply.count = Len(LastReply.hits))
        /\ result.sr.matches_estimated = LastReply.total
        /\ (~LastReply.has_aggs => result.sr.aggregations = None)
        /\ (LastReply.has_aggs => result.sr.aggregations = LastReply.aggregations)

C8_Witness ==
    /\ task.name = "filter"
    /\ result.kind = "return"
    /\ result.sr.n = 1
    /\ result.sr.total_count = 2
    /\ ~LastReply.has_aggs
    /\ result.sr.aggregations = None

(***************************************************************************)
(* C9: after a successful save the document data is exactly the response   *)
(* to the last write of that save: fields held before that the response    *)
(* lacks are gone, and '_schema' is in the data only if the server         *)
(* returned it.                                                            *)
(***************************************************************************)
C9_SaveReplacesData ==
    (task.name = "save" /\ result.kind = "return") =>
        /\ LastReply.ok
        /\ Len(replies) = Len(calls)
        /\ objs[task.slot].data = LastReply.data
        /\ \A k \in (DOMAIN task.pre.inst.data) \ (DOMAIN LastReply.data) :
              k \notin DOMAIN objs[task.slot].data
        /\ ("_schema" \in DOMAIN objs[task.slot].data =>
               "_schema" \in DOMAIN LastReply.data)

C9_Witness ==
    /\ task.name = "save"
    /\ result.kind = "return"
    /\ Len(calls) = 2
    /\ "_schema" \in DOMAIN calls[2].body
    /\ "_schema" \notin DOMAIN objs[task.slot].data
    /\ "id" \in DOMAIN task.pre.inst.data
    /\ "id" \notin DOMAIN objs[task.slot].data

(***************************************************************************)
(* C10: delete issues one delete call to the instance's resolved path with *)
(* the id in document data (None when there is none), leaves document data *)
(* and stashed index parameters as they were whether it succeeds or fails, *)
(* and a remote failure reaches the caller.                                *)
(***************************************************************************)
C10_DeleteOneCallNoMutation ==
    task.name = "delete" =>
        LET pre == task.pre
            f == Format(Template, DictMerge(pre.inst.data, pre.ipval))
        IN  /\ objs[task.slot] = pre.inst
            /\ IndexParamsOf(objs[task.slot], ipheap) = pre.ipval
            /\ calls = IF f.ok
                       THEN <<DeleteCall(f.path, DictGet(pre.inst.data, "id"))>>
                       ELSE <<>>
            /\ (Len(replies) = 1 /\ ~replies[1].ok) => Propagated(1)
            /\ (Len(replies) = 1 /\ replies[1].ok) =>
                  (Idle /\ result.kind = "return")

C10_Witness ==
    /\ task.name = "delete"
    /\ Len(replies) = 1
    /\ ~replies[1].ok
    /\ result.kind = "raise"
    /\ calls[1].id = "v1"
    /\ task.pre.ipval # EmptyDict

(***************************************************************************)
(* C11 as stated: in every reachable state of an instance, after            *)
(* construction from a mapping and/or keyword fields, after attribute      *)
(* writes and after any save, no key of the document data begins with '_'. *)
(***************************************************************************)
C11_NoPrivateKeyInData ==
    \A i \in Slots :
        objs[i].live => (DOMAIN objs[i].data) \cap PrivateNames = {}

(***************************************************************************)
(* C11 amended: an attribute write never adds, removes or changes a key of *)
(* the document data that begins with '_', unless it rebinds the document  *)
(* data itself: writing the attribute _data replaces the document data by  *)
(* the mapping written, '_' keys included.  Construction stores the keys   *)
(* of the mapping and the keyword fields as given, and a successful save   *)
(* stores the keys of the server's response as given, '_' keys included.   *)
(***************************************************************************)
C11_PrivateKeysAsGiven ==
    LET private(d) == Restricted(d, PrivateNames)
    IN  /\ (task.name = "setattr" /\ task.args.name # "_data") =>
              private(objs[task.slot].data) = private(task.pre.inst.data)
        /\ (task.name = "setattr" /\ task.args.name = "_data") =>
              objs[task.slot].data = task.args.data.val
        /\ task.name = "construct" =>
              private(objs[task.slot].data) =
                  DictMerge(private(task.args.data.val), private(task.args.kwargs))
        /\ (task.name = "save" /\ result.kind = "return") =>
              private(objs[task.slot].data) = private(LastReply.data)

C11_Witness ==
    /\ task.name = "setattr"
    /\ task.args.name = "_data"
    /\ "_custom" \in DOMAIN task.pre.inst.attrs
    /\ (DOMAIN task.pre.inst.data) \cap PrivateNames = {}
    /\ (DOMAIN objs[task.slot].data) \cap PrivateNames = {"_schema"}

(***************************************************************************)
(* C12 as stated: reading an attribute whose name is not a key of the      *)
(* document data fails with AttributeError carrying the class name and the *)
(* attribute name; writing a name that starts with '_' leaves the document *)
(* data unchanged; writing any other name stores the value in the document *)
(* data.                                                                   *)
(***************************************************************************)
C12_MissingKeyReadFails ==
    LET n == task.args.name
        inst == objs[task.slot]
        pre == task.pre.inst
    IN  /\ (task.name = "getattr" /\ n \notin DOMAIN inst.data) =>
                /\ result.kind = "raise"
                /\ result.exc = AttributeError(cls.name, n)
        /\ (task.name = "setattr" /\ n \in PrivateNames) =>
                inst.data = pre.data
        /\ (task.name = "setattr" /\ n \notin PrivateNames) =>
                inst.data = DictSet(pre.data, n, task.args.value)

(***************************************************************************)
(* C12 amended: reading an attribute whose name is not a key of the        *)
(* document data and that normal lookup does not find (no attribute of the *)
(* instance: _data, _index_params once assigned, a '_' name written        *)
(* before; nothing the class defines) fails with AttributeError carrying   *)
(* the class name and the attribute name, and a name normal lookup finds   *)
(* is read without failure.  Writing a name that starts with '_' keeps the *)
(* value as instance state and leaves the document data unchanged, unless  *)
(* the name is _data, which rebinds the document data to the mapping       *)
(* written; writing any other name stores the value in the document data.  *)
(***************************************************************************)
C12_AttributeAccess ==
    LET n == task.args.name
        v == task.args.value
        inst == objs[task.slot]
        pre == task.pre.inst
        OfInstance == {"_data"} \cup (DOMAIN inst.attrs)
                         \cup (IF inst.ip # 0 THEN {"_index_params"} ELSE {})
        OfClass == {"save", "delete", "objects", "SCHEMA", "INDEX_TEMPLATE",
                    "default_manager_class", "_get_index"}
    IN  /\ (/\ task.name = "getattr"
             /\ n \notin DOMAIN inst.data
             /\ n \notin OfInstance \cup OfClass) =>
                /\ result = Raised(AttributeError(cls.name, n))
                /\ inst = pre
        /\ (task.name = "getattr" /\ n \in OfInstance \cup OfClass) =>
                /\ result.kind = "return"
                /\ inst = pre
        /\ (task.name = "setattr" /\ n \in PrivateNames \ {"_data", "_index_params"}) =>
                /\ inst.data = pre.data
                /\ inst.attrs = DictSet(pre.attrs, n, v)
                /\ inst.ip = pre.ip
        /\ (task.name = "setattr" /\ n = "_index_params") =>
                /\ inst.data = pre.data
                /\ inst.attrs = pre.attrs
                /\ inst.ip # 0
                /\ ipheap[inst.ip] = task.args.data.val
        /\ (task.name = "setattr" /\ n = "_data") =>
                /\ inst.data = task.args.data.val
                /\ inst.attrs = pre.attrs
                /\ inst.ip = pre.ip
        /\ (task.name = "setattr" /\ n \notin PrivateNames) =>
                /\ inst.data = DictSet(pre.data, n, v)
                /\ inst.attrs = pre.attrs
                /\ inst.ip = pre.ip

C12_Witness ==
    /\ task.name = "getattr"
    /\ result.kind = "raise"
    /\ result.exc.message = <<"Product", "missing">>
    /\ "_custom" \in DOMAIN objs[task.slot].attrs
    /\ "name" \in DOMAIN objs[task.slot].data
    /\ "_schema" \in DOMAIN objs[task.slot].data
    /\ objs[task.slot].ip # 0

(***************************************************************************)
(* C13 as stated: for every name n that does not start with '_' and every  *)
(* value v, after writing v to attribute n, or constructing the instance   *)
(* with n = v, reading attribute n yields v, also when n names something   *)
(* the class defines (save, SCHEMA, ...).                                  *)
(***************************************************************************)
C13_ReadYieldsWritten ==
    LET n == task.args.name
        inst == objs[task.slot]
    IN  /\ (task.name = "setattr" /\ n \notin PrivateNames) =>
                ReadAttribute(cls, inst, ipheap, n) = Found(task.args.value)
        /\ task.name = "construct" =>
                \A k \in (DOMAIN task.args.kwargs) \ PrivateNames :
                    ReadAttribute(cls, inst, ipheap, k) = Found(task.args.kwargs[k])
        /\ (/\ task.name = "getattr"
             /\ n \notin PrivateNames
             /\ n \in DOMAIN inst.data) =>
                /\ result.kind = "return"
                /\ result.value = inst.data[n]

(***************************************************************************)
(* C13 amended: the same for every name n that does not start with '_' and *)
(* that the class does not define; when n names something the class        *)
(* defines, the written value is stored in the document data all the same, *)
(* but reading attribute n yields the attribute of the class.              *)
(***************************************************************************)
C13_ReadYieldsWrittenField ==
    LET n == task.args.name
        inst == objs[task.slot]
        Defined == {"save", "delete", "objects", "SCHEMA", "INDEX_TEMPLATE",
                    "default_manager_class"}
        Written(k, v) ==
            /\ k \in DOMAIN inst.data
            /\ inst.data[k] = v
            /\ ReadAttribute(cls, inst, ipheap, k) =
                  Found(IF k \in Defined THEN ClassAttr(cls, k) ELSE v)
    IN  /\ (task.name = "setattr" /\ n \notin PrivateNames) =>
                Written(n, task.args.value)
        /\ task.name = "construct" =>
                \A k \in (DOMAIN task.args.kwargs) \ PrivateNames :
                    Written(k, task.args.kwargs[k])
        /\ (/\ task.name = "getattr"
             /\ n \notin PrivateNames
             /\ n \in DOMAIN inst.data) =>
                /\ result.kind = "return"
                /\ result.value =
                      IF n \in Defined THEN ClassAttr(cls, n) ELSE inst.data[n]

C13_Witness ==
    /\ task.name = "getattr"
    /\ task.args.name = "save"
    /\ "save" \in DOMAIN objs[task.slot].data
    /\ objs[task.slot].data["save"] = "v2"
    /\ result.kind = "return"
    /\ result.value = "save"

(***************************************************************************)
(* C14: the path of every call of save and delete is the template with     *)
(* each placeholder replaced by the stashed index parameter of that name   *)
(* when there is one, and by the document field of that name otherwise:    *)
(* on a key of both, the index parameter's value is used.                  *)
(***************************************************************************)
C14_PathFromDataAndParams ==
    (task.name \in {"save", "delete"} /\ Len(calls) >= 1) =>
        LET d == task.pre.inst.data
            ip == task.pre.ipval
            val(p) == IF p \in DOMAIN ip THEN ip[p] ELSE d[p]
            expected ==
                CASE Template = TItems -> <<"/items">>
                  [] Template = TProducts -> <<"/products/", val("category")>>
                  [] Template = TTwo -> <<"/", val("category"), "/", val("name")>>
                  [] OTHER -> <<>>
        IN  \A i \in 1..Len(calls) : calls[i].index = expected

C14_Witness ==
    /\ task.name = "save"
    /\ Template = TProducts
    /\ Len(calls) = 2
    /\ "category" \in DOMAIN task.pre.inst.data
    /\ "category" \in DOMAIN task.pre.ipval
    /\ task.pre.inst.data["category"] = "v2"
    /\ task.pre.ipval["category"] = "v1"
    /\ calls[2].index = <<"/products/", "v1">>

(***************************************************************************)
(* C15 as stated: for every declared model class C, a subclass of another  *)
(* model class and classes given the same explicit Manager object          *)
(* included, C.objects.model_cls is C.                                     *)
(***************************************************************************)
C15_ManagerBoundToItsClass ==
    \A c \in 1..Len(registry.classes) :
        registry.managers[registry.classes[c].objects].model_cls = c

(***************************************************************************)
(* C15 amended: a class declared without its own 'objects' has a Manager   *)
(* object of its default_manager_class that no earlier class has, and a    *)
(* class that declares a Manager object keeps that object; model_cls of a  *)
(* Manager object is the last class declared with it, so C.objects         *)
(* .model_cls is C exactly when no later class declares the object that is *)
(* C.objects.                                                              *)
(***************************************************************************)
C15_ManagerBoundToLastOwner ==
    LET classes == registry.classes
        managers == registry.managers
        Owners(m) == {c \in 1..Len(classes) : classes[c].objects = m}
        Last(S) == CHOOSE c \in S : \A d \in S : d <= c
    IN  /\ \A c \in 1..Len(classes) :
              LET k == classes[c]
              IN  /\ k.objects \in 1..Len(managers)
                  /\ k.declared = 0 =>
                        /\ managers[k.objects].type = k.default_manager_class
                        /\ \A d \in 1..(c - 1) : classes[d].objects # k.objects
                  /\ k.declared # 0 => k.objects = k.declared
                  /\ managers[k.objects].model_cls = c <=>
                        \A d \in (c + 1)..Len(classes) :
                            classes[d].declared # k.objects
        /\ \A m \in 1..Len(managers) :
              managers[m].model_cls =
                  IF Owners(m) = {} THEN 0 ELSE Last(Owners(m))

C15_Witness ==
    /\ Len(registry.classes) = 3
    /\ registry.classes[2].declared # 0
    /\ registry.classes[3].declared = registry.classes[2].declared
    /\ registry.managers[registry.classes[2].objects].model_cls = 3
    /\ registry.managers[registry.classes[1].objects].model_cls = 1

(***************************************************************************)
(* C16: for two distinct instances produced by create, get or one filter   *)
(* call, no attribute write, save or in-place update of the index          *)
(* parameters of one of them changes the document data, the stashed index  *)
(* parameters or the resolved path of the other.                           *)
(***************************************************************************)
C16_NoSharedState ==
    [][\A i, j \in Slots :
          (/\ i # j
           /\ objs[i].live
           /\ objs[j].live
           /\ task'.name \in {"setattr", "save", "setitem"}
           /\ task'.slot = i) =>
              /\ objs'[j].data = objs[j].data
              /\ IndexParamsOf(objs'[j], ipheap') = IndexParamsOf(objs[j], ipheap)
              /\ GetIndex(Template, objs'[j], ipheap') =
                    GetIndex(Template, objs[j], ipheap)]_vars

(***************************************************************************)
(* C17: when a placeholder of the template has no value where the path is  *)
(* built (among the keyword arguments of create, get and filter; among the *)
(* document data and the stashed index parameters of save and delete), the *)
(* operation fails while resolving the path, issues no remote call, and    *)
(* leaves the instance as it was.                                          *)
(***************************************************************************)
C17_UnresolvedPathFailsFirst ==
    LET supplied ==
            IF task.name \in {"create", "get", "filter"}
            THEN DOMAIN task.args.kwargs
            ELSE (DOMAIN task.pre.inst.data) \cup (DOMAIN task.pre.ipval)
        unresolvable ==
            \/ Template = TAuto
            \/ \E p \in PlaceholdersOf(Template) : p \notin supplied
    IN  (task.name \in {"create", "get", "filter", "save", "delete"}
            /\ unresolvable) =>
            /\ Idle
            /\ calls = <<>>
            /\ replies = <<>>
            /\ result.kind = "raise"
            /\ result.exc.type \in {"KeyError", "IndexError"}
            /\ task.slot \in Slots =>
                  /\ objs[task.slot] = task.pre.inst
                  /\ IndexParamsOf(objs[task.slot], ipheap) = task.pre.ipval

C17_Witness ==
    /\ task.name = "save"
    /\ Template = TTwo
    /\ result.kind = "raise"
    /\ result.exc.type = "KeyError"
    /\ calls = <<>>
    /\ "name" \in DOMAIN objs[task.slot].data
    /\ "category" \notin DOMAIN objs[task.slot].data

(***************************************************************************)
(* C18: for a template without placeholders every call of create, get,     *)
(* filter, save and delete goes to the template itself whatever keyword    *)
(* arguments or document data are supplied, no operation fails resolving   *)
(* its path, the extracted index parameters are empty, every keyword field *)
(* of create is in the body of its write, and save writes the whole        *)
(* document data.                                                          *)
(***************************************************************************)
C18_NoPlaceholders ==
    (Template = TItems
        /\ task.name \in {"create", "get", "filter", "save", "delete"}) =>
        /\ Len(calls) >= 1
        /\ \A i \in 1..Len(calls) : calls[i].index = <<"/items">>
        /\ task.name \in {"create", "get", "filter"} =>
              /\ task.index_params = EmptyDict
              /\ \A i \in Slots :
                    objs[i].live => IndexParamsOf(objs[i], ipheap) = EmptyDict
        /\ task.name = "create" => calls[1].body = task.args.kwargs
        /\ task.name = "save" => calls[1].body = task.pre.inst.data

C18_Witness ==
    /\ Template = TItems
    /\ task.name = "create"
    /\ calls[1].index = <<"/items">>
    /\ DOMAIN calls[1].body = {"category", "name"}
    /\ result.kind = "return"
    /\ objs[task.slot].ip # 0

(***************************************************************************)
(* C19: get issues one fetch call with the id and the volatile flag it was *)
(* given, volatile being False when not given; filter issues one search    *)
(* call with the query, limit, offset, sort and check_at_least it was      *)
(* given, None when not given; a keyword argument that is no named         *)
(* parameter and no placeholder is in no argument of the remote call and   *)
(* changes neither the path nor the result.                                *)
(***************************************************************************)
C19_ArgumentsForwarded ==
    LET K == task.args.kwargs
        P == PlaceholdersOf(Template)
        path == Format(Template, Restricted(K, P)).path
        vol == task.args.volatile
        a == task.args.filter
    IN  /\ (task.name = "get" /\ ~PathFailed) =>
              /\ Len(calls) = 1
              /\ calls[1].fn = "get"
              /\ calls[1].index = path
              /\ calls[1].id = task.args.id
              /\ calls[1].volatile = (vol.given /\ vol.val)
              /\ calls[1].body = EmptyDict
              /\ \A x \in {"query", "limit", "offset", "sort", "check_at_least"} :
                    calls[1][x] = None
              /\ result.kind = "return" =>
                    /\ objs[task.slot].data = LastReply.data
                    /\ IndexParamsOf(objs[task.slot], ipheap) = Restricted(K, P)
        /\ (task.name = "filter" /\ ~PathFailed) =>
              /\ Len(calls) = 1
              /\ calls[1].fn = "search"
              /\ calls[1].index = path
              /\ \A x \in {"query", "limit", "offset", "sort", "check_at_least"} :
                    calls[1][x] = a[x]
              /\ calls[1].id = None
              /\ calls[1].volatile = FALSE
              /\ calls[1].body = EmptyDict
              /\ result.kind = "return" =>
                    /\ result.sr.n = Len(LastReply.hits)
                    /\ \A i \in 1..result.sr.n :
                          /\ objs[i].data = LastReply.hits[i]
                          /\ IndexParamsOf(objs[i], ipheap) = Restricted(K, P)

C19_Witness ==
    /\ task.name = "get"
    /\ Template = TProducts
    /\ DOMAIN task.args.kwargs = {"category", "name"}
    /\ task.args.volatile = Given(TRUE)
    /\ calls[1].volatile = TRUE
    /\ calls[1].id = "v2"
    /\ calls[1].index = <<"/products/", "v1">>
    /\ result.kind = "return"

(***************************************************************************)
(* C20: the async and the sync variant behave alike: on every failure of   *)
(* the first write of create or save (412, another status, no response),   *)
(* the calls issued and the result or failure the caller receives in one   *)
(* variant are those the handler of the other variant produces; every      *)
(* other step of every operation is the same code in both.                 *)
(***************************************************************************)
C20_VariantsAgree ==
    (WriteOp /\ Idle /\ Len(replies) >= 1 /\ ~replies[1].ok) =>
        LET other == IF variant = "async" THEN "sync" ELSE "async"
            does == OnTransportError(other, replies[1])
        IN  /\ does = "retry" => Len(calls) = 2
            /\ does = "raise" => (Len(calls) = 1 /\ Propagated(1))
            /\ does = "AttributeError" =>
                  /\ Len(calls) = 1
                  /\ result = Raised(AttributeError("NoneType", "status_code"))

(***************************************************************************)
(* C21: when a save fails, by a failure other than 412 of its first write  *)
(* or by any failure of the retry after a 412, the instance's document     *)
(* data and stashed index parameters are what they were before the save;   *)
(* while the retry carrying the schema is out, and after it fails, the     *)
(* local document data has no '_schema' the save added.                    *)
(***************************************************************************)
C21_FailedSaveLeavesState ==
    (task.name = "save" /\ Len(replies) >= 1 /\ ~LastReply.ok) =>
        /\ objs[task.slot].data = task.pre.inst.data
        /\ objs[task.slot].attrs = task.pre.inst.attrs
        /\ objs[task.slot].ip = task.pre.inst.ip
        /\ IndexParamsOf(objs[task.slot], ipheap) = task.pre.ipval
        /\ ("_schema" \in DOMAIN objs[task.slot].data =>
               "_schema" \in DOMAIN task.pre.inst.data)
        /\ (Idle => result.kind = "raise")

C21_Witness ==
    /\ task.name = "save"
    /\ Idle
    /\ result.kind = "raise"
    /\ Len(replies) = 2
    /\ Is412(replies[1])
    /\ ~replies[2].ok
    /\ "_schema" \in DOMAIN calls[2].body
    /\ "_schema" \notin DOMAIN objs[task.slot].data
    /\ task.pre.ipval # EmptyDict

(***************************************************************************)
(* C22: every save and delete on an instance that create, get or filter    *)
(* built sends its calls to the path the building call used, whatever      *)
(* writes to document fields and successful saves came between: the        *)
(* stashed index parameters name every placeholder, so the path always     *)
(* resolves, and save, delete and attribute writes leave them as they were.*)
(***************************************************************************)
C22_SamePathAsOrigin ==
    (task.name \in {"save", "delete", "setattr"}
        /\ task.pre.inst.origin # <<>>) =>
        /\ DOMAIN task.pre.ipval = PlaceholdersOf(Template)
        /\ objs[task.slot].origin = task.pre.inst.origin
        /\ objs[task.slot].ip = task.pre.inst.ip
        /\ IndexParamsOf(objs[task.slot], ipheap) = task.pre.ipval
        /\ (task.name \in {"save", "delete"} =>
              /\ Len(calls) >= 1
              /\ \A i \in 1..Len(calls) :
                    calls[i].index = task.pre.inst.origin)

C22_Witness ==
    /\ task.name = "delete"
    /\ Template = TProducts
    /\ Len(replies) = 1
    /\ task.pre.inst.origin = <<"/products/", "v1">>
    /\ calls[1].index = <<"/products/", "v1">>
    /\ task.pre.inst.data =
          [k \in {"id", "name", "category"} |-> IF k = "id" THEN "v1" ELSE "v2"]

(***************************************************************************)
(* C23: every call of save and delete carries as id the 'id' field the     *)
(* document data held when the operation was called, and None when the     *)
(* data had none; a missing id never stops the call from being issued.     *)
(* When a save has succeeded, the save or delete that follows it sends the *)
(* id of that save's response (None when the response has none).           *)
(***************************************************************************)
C23_IdOfDataAtCall ==
    task.name \in {"save", "delete"} =>
        LET d == task.pre.inst.data
            sent == IF "id" \in DOMAIN d THEN d["id"] ELSE None
        IN  /\ \A i \in 1..Len(calls) : calls[i].id = sent
            /\ Format(Template, DictMerge(d, task.pre.ipval)).ok =>
                  Len(calls) >= 1
            /\ (Idle /\ Len(replies) = 0) => PathFailed

C23_NextSendsResponseId ==
    (/\ task.name = "save"
     /\ Idle
     /\ result.kind = "return"
     /\ task'.name \in {"save", "delete"}
     /\ task'.slot = task.slot
     /\ Len(calls') = 1
     /\ Len(replies') = 0) =>
        calls'[1].id = IF "id" \in DOMAIN LastReply.data
                       THEN LastReply.data["id"] ELSE None

C23_IdSent == [][C23_IdOfDataAtCall' /\ C23_NextSendsResponseId]_vars

C23_Witness ==
    /\ task.name = "save"
    /\ Idle
    /\ result.kind = "return"
    /\ "id" \notin DOMAIN task.pre.inst.data
    /\ calls[1].id = None
    /\ "id" \in DOMAIN objs[task.slot].data
    /\ objs[task.slot].data["id"] = "v1"

(***************************************************************************)
(* C24: in the async variant, when a save that was suspended at its remote *)
(* call completes successfully, the document data is the response to that  *)
(* save alone: a field another coroutine wrote while the save was          *)
(* suspended is in the data only as the response has it, and when the      *)
(* other coroutine's save of the same instance returned in between, the    *)
(* data is the response of the save that resumed last.                     *)
(***************************************************************************)
C24_SaveCompletes ==
    /\ parked'.task.pc = parked.task.pc
    /\ parked'.calls = parked.calls
    /\ parked'.replies = parked.replies
    /\ parked'.result = parked.result
    /\ task.name = "save"
    /\ task.pc # "idle"
    /\ task'.pc = "idle"
    /\ result'.kind = "return"

C24_ResponseAlone ==
    [][C24_SaveCompletes =>
        LET response == replies'[Len(replies')].data
            data == objs'[task.slot].data
        IN  /\ data = response
            /\ (parked.task.name = "setattr"
                   /\ ~StartsWithUnderscore(parked.task.args.name)
                   /\ parked.task.args.name \in DOMAIN data) =>
                  /\ parked.task.args.name \in DOMAIN response
                  /\ data[parked.task.args.name] =
                        response[parked.task.args.name]
            /\ (parked.task.name = "save" /\ parked.result.kind = "return"
                   /\ data = parked.replies[Len(parked.replies)].data) =>
                  parked.replies[Len(parked.replies)].data = response]_vars

C24_Witness ==
    /\ variant = "async"
    /\ task.name = "save"
    /\ Idle
    /\ result.kind = "return"
    /\ task.pre.inst.data = [k \in {"name", "category"} |-> "v1"]
    /\ parked.task.name = "save"
    /\ parked.result.kind = "return"
    /\ parked.task.pre.inst.data =
          [k \in {"name", "category"} |-> IF k = "name" THEN "v2" ELSE "v1"]
    /\ parked.replies[Len(parked.replies)].data = [k \in {"name"} |-> "v2"]
    /\ objs[task.slot].data = [k \in {"id", "name"} |-> "v1"]
    /\ LastReply.data = [k \in {"id", "name"} |-> "v1"]

====
